---- MODULE Spec2Model ----
(***************************************************************************)
(* State-machine model of edward/inferences.py: the VariationalInference   *)
(* control loop (run / initialize / update / print_progress / finalize)    *)
(* and the loss construction of its subclasses MFVI, KLpq, MAP, Laplace.   *)
(*                                                                         *)
(* Tensors, optimizers and samples are collaborators; they are modelled by *)
(* the name of the expression that built them.  `written[a]` is the number *)
(* of initialize invocations made when attribute a of the instance was     *)
(* last assigned (0: the attribute does not exist yet).                    *)
(***************************************************************************)
EXTENDS Integers, Sequences, FiniteSets, TLC

\* ------------------------------------------------------------------ bounds
MaxIter == 1
MaxPrint == 2
MaxCalls == 2

\* MFVI.initialize / KLpq.initialize: n_minibatch=1
DefaultMinibatch == 1

VARIABLES
    cls,          \* class of the instance
    variational,  \* self.variational: the capability flags of the family
    model,        \* self.model: whether it exposes log_lik
    has_pt,       \* whether `import prettytensor as pt` succeeded
    self,         \* the instance attributes set by initialize / build_loss
    written,      \* attribute name -> value of gen when it was last assigned
    gen,          \* number of initialize invocations so far
    calls,        \* number of top-level calls made on the instance so far
    call,         \* the top-level call in progress or last finished
    args,         \* the arguments of the last initialize invocation
    pc,           \* position inside run(), or how the last call ended
    t,            \* loop variable of run()
    exc,          \* the exception that ended the last call
    count,        \* method invocations during the current top-level call
    built,        \* loss builders invoked during the current top-level call
    printed,      \* the values of t passed to print_progress, in order
    emitted,      \* the values of t for which print_progress printed
    hessian_vars  \* var_list of the last hessian() computation

vars == <<cls, variational, model, has_pt, self, written, gen, calls, call,
          args, pc, t, exc, count, built, printed, emitted, hessian_vars>>

env == <<cls, variational, model, has_pt>>

\* ------------------------------------------------------------- vocabulary
Classes == {"VariationalInference", "MFVI", "KLpq", "MAP", "Laplace"}

\* Python None for an optional integer is the empty tuple, an integer k is <<k>>.
None == <<>>
Some(k) == <<k>>

Attrs == {"n_iter", "n_data", "n_print", "loss", "zs", "train", "score",
          "n_minibatch"}

NoExc == [type |-> "none", at |-> "none"]
Raise(type, at) == [type |-> type, at |-> at]

NoTrain == [optimizer |-> "unset", minimizes |-> "unset", var_list |-> {}]

ZeroCount == [initialize |-> 0, build_loss |-> 0, update |-> 0, update_ok |-> 0,
              print_progress |-> 0, finalize |-> 0, hessian |-> 0]

\* The arguments one initialize call can be given.
NIterArgs == 0..MaxIter
NPrintArgs == {None} \cup {Some(k) : k \in 0..MaxPrint}
NDataArgs == {None}
OptimizerArgs == {"None", "prettytensor"}
ScopeArgs == {"None", "variational"}
ScoreArgs == {"None", "True", "False"}

\* The arguments accepted by cls.initialize: only MFVI takes `score`.
ArgsFor(c) ==
    [n_iter : NIterArgs, n_data : NDataArgs, n_print : NPrintArgs,
     optimizer : OptimizerArgs, scope : ScopeArgs,
     score : IF c = "MFVI" THEN ScoreArgs ELSE {"None"},
     n_minibatch : {DefaultMinibatch}]

NoArgs == [n_iter |-> 0, n_data |-> None, n_print |-> None, optimizer |-> "None",
           scope |-> "None", score |-> "None", n_minibatch |-> DefaultMinibatch]

\* ------------------------------------------------- the graph's variables
\* A variable name is the sequence of the pieces it is spelled with, so that
\* a prefix of the sequence is a prefix of the spelling.  The scopes a
\* family's parameters can be created under:
NoScope == <<>>                                      \* "params"
InVariational == <<"variational", "/">>              \* "variational/params"
InVariational_1 == <<"variational", "_1", "/">>      \* "variational_1/params"
InOuterVariational == <<"outer", "/", "variational", "/">>

\* Laplace.__init__ opens variable_scope("variational") around the family it
\* builds: the parameters are under "variational/" for the first instance,
\* "variational_1/" when the name is already taken, "outer/variational/" when
\* the caller has a scope open, and wherever the caller created them when
\* they are passed in as `params`.
LaplaceScopes == {InVariational, InVariational_1, InOuterVariational, NoScope}

\* MAP.__init__ opens no scope and the other classes receive a family the
\* caller built: the parameters are under the caller's scope, if any.
CallerScopes == {NoScope, InVariational}

\* tf.GraphKeys.TRAINABLE_VARIABLES: the parameters of the variational family
\* and the parameters the model declares under "model".  global_step is
\* created with trainable=False and is never in the collection.
TrainableVariables ==
    {[owner |-> "variational", name |-> variational.scope \o <<"params">>],
     [owner |-> "model", name |-> <<"model", "/", "params">>]}

\* re.match(scope, name): the name starts with the scope
re_match(scope, name) ==
    /\ Len(scope) <= Len(name)
    /\ SubSeq(name, 1, Len(scope)) = scope

\* tf.get_collection(TRAINABLE_VARIABLES, scope=scope)
get_collection(scope) ==
    IF scope = "None" THEN TrainableVariables
    ELSE {v \in TrainableVariables : re_match(<<scope>>, v.name)}

\* ------------------------------------------------------ attribute access
\* A frame is the instance while one initialize invocation executes:
\* its attributes, who wrote them, the exception raised (if any), the
\* loss builders invoked so far and the number of build_loss() calls.
Frame(s, w) ==
    [self |-> s, written |-> w, exc |-> NoExc, built |-> <<>>, n_build_loss |-> 0]

\* self.<a> = v, executed when g initialize invocations have been made
SetAttr(fr, a, v, g) ==
    [fr EXCEPT !.self[a] = v, !.written[a] = g]

HasAttr(w, a) == w[a] > 0

\* ---------------------------------------------------------- loss builders
\* Every builder reads self.n_data for x = data.sample(self.n_data); the MFVI
\* and KLpq builders then read self.n_minibatch and assign self.zs; the
\* analytic-KL builders ("kl") call model.log_lik, which the model may not
\* have, and read loc and scale of the family's layers, which only a Gaussian
\* family has; the analytic-entropy builders ("entropy") call
\* variational.entropy(), which a family without an analytic entropy does not
\* implement; then the builder assigns self.loss and returns the expression
\* the optimizer minimizes.  A read of an attribute never assigned raises
\* AttributeError.
Builder(fr, g, name, setsZs, kind) ==
    IF ~HasAttr(fr.written, "n_data")
    THEN [fr EXCEPT !.exc = Raise("AttributeError", "build_loss")]
    ELSE IF setsZs /\ ~HasAttr(fr.written, "n_minibatch")
    THEN [fr EXCEPT !.exc = Raise("AttributeError", "build_loss")]
    ELSE LET f1 == IF setsZs
                   THEN SetAttr(fr, "zs", "variational.sample(n_minibatch)", g)
                   ELSE fr
             f2 == SetAttr(f1, "loss", name, g)
         IN  IF kind = "kl" /\ (~model.log_lik \/ ~variational.is_normal)
             THEN [f1 EXCEPT !.exc = Raise("AttributeError", "build_loss")]
             ELSE IF kind = "entropy" /\ ~variational.is_entropy
             THEN [f1 EXCEPT !.exc = Raise("NotImplementedError", "build_loss")]
             ELSE [f2 EXCEPT !.built = Append(@, name)]

build_score_loss(fr, g) == Builder(fr, g, "score_loss", TRUE, "plain")
build_reparam_loss(fr, g) == Builder(fr, g, "reparam_loss", TRUE, "plain")
build_score_loss_kl(fr, g) == Builder(fr, g, "score_loss_kl", TRUE, "kl")
build_reparam_loss_kl(fr, g) == Builder(fr, g, "reparam_loss_kl", TRUE, "kl")
build_score_loss_entropy(fr, g) ==
    Builder(fr, g, "score_loss_entropy", TRUE, "entropy")
build_reparam_loss_entropy(fr, g) ==
    Builder(fr, g, "reparam_loss_entropy", TRUE, "entropy")

\* A base class whose build_loss returns a loss instead of raising.
VI_build_loss_pass(fr, g) == Builder(fr, g, "constant(0.0)", FALSE, "plain")

\* VariationalInference.build_loss: raise NotImplementedError()
VI_build_loss(fr, g) ==
    [fr EXCEPT !.exc = Raise("NotImplementedError", "build_loss")]

\* MFVI.build_loss with the two commented-out is_entropy branches active.
MFVI_build_loss_entropy(fr, g) ==
    IF ~HasAttr(fr.written, "score")
    THEN [fr EXCEPT !.exc = Raise("AttributeError", "build_loss")]
    ELSE IF fr.self.score
         THEN IF variational.is_normal /\ model.log_lik
              THEN build_score_loss_kl(fr, g)
              ELSE IF variational.is_entropy
              THEN build_score_loss_entropy(fr, g)
              ELSE build_score_loss(fr, g)
         ELSE IF variational.is_normal /\ model.log_lik
              THEN build_reparam_loss_kl(fr, g)
              ELSE IF variational.is_entropy
              THEN build_reparam_loss_entropy(fr, g)
              ELSE build_reparam_loss(fr, g)

\* MFVI.build_loss: the dispatch over self.score and
\* (variational.is_normal and hasattr(model, 'log_lik')); the is_entropy
\* branches are commented out in the source.
MFVI_build_loss(fr, g) ==
    IF ~HasAttr(fr.written, "score")
    THEN [fr EXCEPT !.exc = Raise("AttributeError", "build_loss")]
    ELSE IF fr.self.score
         THEN IF variational.is_normal /\ model.log_lik
              THEN build_score_loss_kl(fr, g)
              ELSE build_score_loss(fr, g)
         ELSE IF variational.is_normal /\ model.log_lik
              THEN build_reparam_loss_kl(fr, g)
              ELSE build_reparam_loss(fr, g)

\* The loss builders of MFVI, each a public method of the instance.
MFVIBuilders == {"build_score_loss", "build_reparam_loss", "build_score_loss_kl",
                 "build_reparam_loss_kl", "build_score_loss_entropy",
                 "build_reparam_loss_entropy"}

\* self.<b>() for b one of the MFVI builders
MFVI_builder(b, fr, g) ==
    CASE b = "build_score_loss" -> build_score_loss(fr, g)
      [] b = "build_reparam_loss" -> build_reparam_loss(fr, g)
      [] b = "build_score_loss_kl" -> build_score_loss_kl(fr, g)
      [] b = "build_reparam_loss_kl" -> build_reparam_loss_kl(fr, g)
      [] b = "build_score_loss_entropy" -> build_score_loss_entropy(fr, g)
      [] OTHER -> build_reparam_loss_entropy(fr, g)

\* KLpq.build_loss
KLpq_build_loss(fr, g) == Builder(fr, g, "klpq_loss", TRUE, "plain")

\* MAP.build_loss
MAP_build_loss(fr, g) == Builder(fr, g, "log_prob", FALSE, "plain")

\* Laplace.build_loss
Laplace_build_loss(fr, g) == Builder(fr, g, "log_prob", FALSE, "plain")

\* self.build_loss(): dynamic dispatch on the class of the instance
build_loss(fr, g) ==
    CASE cls = "MFVI" -> MFVI_build_loss(fr, g)
      [] cls = "KLpq" -> KLpq_build_loss(fr, g)
      [] cls = "MAP" -> MAP_build_loss(fr, g)
      [] cls = "Laplace" -> Laplace_build_loss(fr, g)
      [] OTHER -> VI_build_loss(fr, g)

\* ------------------------------------------------------------- initialize
\* VariationalInference.initialize that calls build_loss() a second time when
\* it sets up the optimizer, building the loss graph twice.
VI_initialize_rebuild(fr, a, g) ==
    LET f1 == SetAttr(fr, "n_iter", a.n_iter, g)
        f2 == SetAttr(f1, "n_data", a.n_data, g)
        f3 == SetAttr(f2, "n_print", a.n_print, g)
        f4 == SetAttr(f3, "loss", "constant(0.0)", g)
        f5 == build_loss([f4 EXCEPT !.n_build_loss = @ + 1], g)
        f6 == IF f5.exc # NoExc THEN f5
              ELSE build_loss([f5 EXCEPT !.n_build_loss = @ + 1], g)
        ret == f6.built[Len(f6.built)]
    IN  IF f6.exc # NoExc THEN f6
        ELSE IF a.optimizer = "None"
        THEN SetAttr(f6, "train",
                     [optimizer |-> "AdamOptimizer(learning_rate)",
                      minimizes |-> ret,
                      var_list |-> get_collection(a.scope)], g)
        ELSE IF a.scope # "None"
        THEN [f6 EXCEPT !.exc = Raise("NotImplementedError", "initialize")]
        ELSE IF ~has_pt
        THEN [f6 EXCEPT !.exc = Raise("NameError", "initialize")]
        ELSE SetAttr(f6, "train",
                     [optimizer |-> "pt.apply_optimizer",
                      minimizes |-> ret,
                      var_list |-> TrainableVariables], g)

\* VariationalInference.initialize(n_iter, n_data, n_print, optimizer, scope)
VI_initialize(fr, a, g) ==
    LET f1 == SetAttr(fr, "n_iter", a.n_iter, g)
        f2 == SetAttr(f1, "n_data", a.n_data, g)
        f3 == SetAttr(f2, "n_print", a.n_print, g)
        f4 == SetAttr(f3, "loss", "constant(0.0)", g)
        f5 == build_loss([f4 EXCEPT !.n_build_loss = @ + 1], g)
        ret == f5.built[Len(f5.built)]
    IN  IF f5.exc # NoExc THEN f5
        ELSE IF a.optimizer = "None"
        THEN SetAttr(f5, "train",
                     [optimizer |-> "AdamOptimizer(learning_rate)",
                      minimizes |-> ret,
                      var_list |-> get_collection(a.scope)], g)
        ELSE IF a.scope # "None"
        THEN [f5 EXCEPT !.exc = Raise("NotImplementedError", "initialize")]
        ELSE IF ~has_pt
        THEN [f5 EXCEPT !.exc = Raise("NameError", "initialize")]
        ELSE SetAttr(f5, "train",
                     [optimizer |-> "pt.apply_optimizer",
                      minimizes |-> ret,
                      var_list |-> TrainableVariables], g)

\* MFVI.initialize: the estimator chosen from the `score` argument
SelectScore(score, is_reparam) ==
    IF score = "None" /\ is_reparam THEN FALSE ELSE TRUE

\* MFVI.initialize that runs the base initialize (and so build_loss) before
\* it assigns self.score: the loss is built from the attribute's old value.
MFVI_initialize_stale(fr, a, g) ==
    LET f0 == VI_initialize(fr, a, g)
        f1 == SetAttr(f0, "score", SelectScore(a.score, variational.is_reparam), g)
    IN  IF f0.exc # NoExc THEN f0
        ELSE SetAttr(f1, "n_minibatch", a.n_minibatch, g)

\* MFVI.initialize(n_minibatch, score, *args, **kwargs)
MFVI_initialize(fr, a, g) ==
    LET f1 == SetAttr(fr, "score", SelectScore(a.score, variational.is_reparam), g)
        f2 == SetAttr(f1, "n_minibatch", a.n_minibatch, g)
    IN  VI_initialize(f2, a, g)

\* KLpq.initialize(n_minibatch, *args, **kwargs)
KLpq_initialize(fr, a, g) ==
    VI_initialize(SetAttr(fr, "n_minibatch", a.n_minibatch, g), a, g)

\* self.initialize(*args, **kwargs): dynamic dispatch
initialize(fr, a, g) ==
    CASE cls = "MFVI" -> MFVI_initialize(fr, a, g)
      [] cls = "KLpq" -> KLpq_initialize(fr, a, g)
      [] OTHER -> VI_initialize(fr, a, g)

\* ---------------------------------------------------------- print_progress
\* print_progress that tests (t + 1) % n_print.
PrintOutcome_offByOne(n_print, i) ==
    IF n_print # None
    THEN IF n_print[1] = 0 THEN "raise"
         ELSE IF (i + 1) % n_print[1] = 0 THEN "print" ELSE "skip"
    ELSE "skip"

\* The outcome of print_progress(t, loss): "raise" when t % n_print divides by
\* zero, "print" when the two print statements run, "skip" otherwise.
PrintOutcome(n_print, i) ==
    IF n_print # None
    THEN IF n_print[1] = 0 THEN "raise"
         ELSE IF i % n_print[1] = 0 THEN "print" ELSE "skip"
    ELSE "skip"

\* ------------------------------------------------------------------ update
\* update(): VariationalInference.update reads self.train and self.loss;
\* MFVI.update and KLpq.update first read self.zs.  `ok` is whether the
\* engine's sess.run succeeds.  The result is the exception raised, if any.
update(ok) ==
    IF cls \in {"MFVI", "KLpq"} /\ ~HasAttr(written, "zs")
    THEN Raise("AttributeError", "update")
    ELSE IF ~HasAttr(written, "train") \/ ~HasAttr(written, "loss")
    THEN Raise("AttributeError", "update")
    ELSE IF ~ok
    THEN Raise("EngineError", "update")
    ELSE NoExc

\* ---------------------------------------------------------------- finalize
\* Laplace.finalize: the var_list of its hessian() call
Laplace_finalize_var_list == get_collection("variational")

\* finalize(): VariationalInference.finalize is `pass`; Laplace.finalize reads
\* self.n_data before it computes the Hessian.  The exception raised, if any.
finalize ==
    IF cls = "Laplace" /\ ~HasAttr(written, "n_data")
    THEN Raise("AttributeError", "finalize")
    ELSE NoExc

\* -------------------------------------------------------------------- Init
InitSelf ==
    [n_iter |-> 0, n_data |-> None, n_print |-> None, loss |-> "unset",
     zs |-> "unset", train |-> NoTrain, score |-> FALSE, n_minibatch |-> 0]

\* Only the methods of MFVI read the family's flags and the model's log_lik;
\* for the other classes one value stands for all.
Init ==
    /\ cls \in Classes
    /\ variational \in [is_reparam : IF cls = "MFVI" THEN BOOLEAN ELSE {FALSE},
                        is_normal : IF cls = "MFVI" THEN BOOLEAN ELSE {FALSE},
                        is_entropy : IF cls = "MFVI" THEN BOOLEAN ELSE {FALSE},
                        scope : IF cls = "Laplace" THEN LaplaceScopes
                                ELSE CallerScopes]
    /\ model \in [log_lik : IF cls = "MFVI" THEN BOOLEAN ELSE {FALSE}]
    /\ has_pt \in BOOLEAN
    /\ self = InitSelf
    /\ written = [a \in Attrs |-> 0]
    /\ gen = 0
    /\ calls = 0
    /\ call = "none"
    /\ args = NoArgs
    /\ pc = "idle"
    /\ t = 0
    /\ exc = NoExc
    /\ count = ZeroCount
    /\ built = <<>>
    /\ printed = <<>>
    /\ emitted = {}
    /\ hessian_vars = {}

\* ----------------------------------------------------------------- actions
\* run(*args, **kwargs), up to the first loop iteration: self.initialize(...)
\* and the evaluation of range(self.n_iter+1).
CallRun ==
    /\ pc = "idle"
    /\ calls < MaxCalls
    /\ \E a \in ArgsFor(cls) :
         \E fr \in {initialize(Frame(self, written), a, gen + 1)} :
             /\ self' = fr.self
             /\ written' = fr.written
             /\ exc' = fr.exc
             /\ built' = fr.built
             /\ count' = [count EXCEPT !.initialize = 1,
                                       !.build_loss = fr.n_build_loss]
             /\ args' = a
             /\ pc' = IF fr.exc # NoExc THEN "raised"
                      ELSE IF 0 < fr.self.n_iter + 1 THEN "update"
                      ELSE "finalize"
    /\ gen' = gen + 1
    /\ calls' = calls + 1
    /\ call' = "run"
    /\ UNCHANGED <<env, t, printed, emitted, hessian_vars>>

\* initialize(...) called directly on the instance
CallInitialize ==
    /\ pc = "idle"
    /\ calls < MaxCalls
    /\ \E a \in ArgsFor(cls) :
         \E fr \in {initialize(Frame(self, written), a, gen + 1)} :
             /\ self' = fr.self
             /\ written' = fr.written
             /\ exc' = fr.exc
             /\ built' = fr.built
             /\ count' = [count EXCEPT !.initialize = 1,
                                       !.build_loss = fr.n_build_loss]
             /\ args' = a
             /\ pc' = IF fr.exc # NoExc THEN "raised" ELSE "done"
    /\ gen' = gen + 1
    /\ calls' = calls + 1
    /\ call' = "initialize"
    /\ UNCHANGED <<env, t, printed, emitted, hessian_vars>>

\* update() called directly on the instance
CallUpdate ==
    /\ pc = "idle"
    /\ calls < MaxCalls
    /\ \E ok \in BOOLEAN :
         \E e \in {update(ok)} :
             /\ exc' = e
             /\ count' = [count EXCEPT !.update = 1,
                                       !.update_ok = IF e = NoExc THEN 1 ELSE 0]
             /\ pc' = IF e # NoExc THEN "raised" ELSE "done"
    /\ calls' = calls + 1
    /\ call' = "update"
    /\ UNCHANGED <<env, self, written, gen, args, t, built, printed, emitted,
                   hessian_vars>>

\* A loop that calls update() again after a failed engine execution.
LoopUpdate_retry ==
    /\ pc = "update"
    /\ \E ok \in BOOLEAN :
         \E e \in {update(ok)} :
             /\ exc' = e
             /\ count' = [count EXCEPT !.update = @ + 1,
                                       !.update_ok = IF e = NoExc THEN @ + 1 ELSE @]
             /\ pc' = IF e.type = "AttributeError" THEN "raised"
                      ELSE IF e # NoExc THEN "update"
                      ELSE "print_progress"
    /\ count.update < 2 * (MaxIter + 1)
    /\ UNCHANGED <<env, self, written, gen, calls, call, args, t, built,
                   printed, emitted, hessian_vars>>

\* run(): loss = self.update()
LoopUpdate ==
    /\ pc = "update"
    /\ \E ok \in BOOLEAN :
         \E e \in {update(ok)} :
             /\ exc' = e
             /\ count' = [count EXCEPT !.update = @ + 1,
                                       !.update_ok = IF e = NoExc THEN @ + 1 ELSE @]
             /\ pc' = IF e # NoExc THEN "raised" ELSE "print_progress"
    /\ UNCHANGED <<env, self, written, gen, calls, call, args, t, built,
                   printed, emitted, hessian_vars>>

\* run(): self.print_progress(t, loss), then the loop's next iteration or exit
PrintProgress ==
    /\ pc = "print_progress"
    /\ \E o \in {PrintOutcome(self.n_print, t)} :
           /\ exc' = IF o = "raise"
                     THEN Raise("ZeroDivisionError", "print_progress") ELSE NoExc
           /\ emitted' = IF o = "print" THEN emitted \cup {t} ELSE emitted
           /\ pc' = IF o = "raise" THEN "raised"
                    ELSE IF t + 1 < self.n_iter + 1 THEN "update"
                    ELSE "finalize"
           /\ t' = IF o # "raise" /\ t + 1 < self.n_iter + 1 THEN t + 1 ELSE t
    /\ count' = [count EXCEPT !.print_progress = @ + 1]
    /\ printed' = Append(printed, t)
    /\ UNCHANGED <<env, self, written, gen, calls, call, args, built,
                   hessian_vars>>

\* print_progress(t, loss) called directly on the instance: it reads
\* self.n_print, which exists only once initialize has assigned it.
CallPrintProgress ==
    /\ pc = "idle"
    /\ calls < MaxCalls
    /\ \E i \in 0..MaxIter :
         \E o \in {IF ~HasAttr(written, "n_print") THEN "unset"
                   ELSE PrintOutcome(self.n_print, i)} :
             /\ exc' = IF o = "unset"
                       THEN Raise("AttributeError", "print_progress")
                       ELSE IF o = "raise"
                       THEN Raise("ZeroDivisionError", "print_progress")
                       ELSE NoExc
             /\ emitted' = IF o = "print" THEN {i} ELSE {}
             /\ pc' = IF o \in {"unset", "raise"} THEN "raised" ELSE "done"
             /\ printed' = <<i>>
    /\ count' = [count EXCEPT !.print_progress = 1]
    /\ calls' = calls + 1
    /\ call' = "print_progress"
    /\ UNCHANGED <<env, self, written, gen, args, t, built, hessian_vars>>

\* run(): self.finalize().  VariationalInference.finalize is `pass`;
\* Laplace.finalize computes and prints the Hessian.
Finalize ==
    /\ pc = "finalize"
    /\ \E e \in {finalize} :
         /\ exc' = e
         /\ count' = [count EXCEPT
                        !.finalize = @ + 1,
                        !.hessian = IF cls = "Laplace" /\ e = NoExc
                                    THEN @ + 1 ELSE @]
         /\ hessian_vars' = IF cls = "Laplace" /\ e = NoExc
                            THEN Laplace_finalize_var_list
                            ELSE hessian_vars
         /\ pc' = IF e # NoExc THEN "raised" ELSE "done"
    /\ UNCHANGED <<env, self, written, gen, calls, call, args, t, built,
                   printed, emitted>>

\* finalize() called directly on the instance
CallFinalize ==
    /\ pc = "idle"
    /\ calls < MaxCalls
    /\ \E e \in {finalize} :
         /\ exc' = e
         /\ count' = [count EXCEPT
                        !.finalize = 1,
                        !.hessian = IF cls = "Laplace" /\ e = NoExc
                                    THEN 1 ELSE 0]
         /\ hessian_vars' = IF cls = "Laplace" /\ e = NoExc
                            THEN Laplace_finalize_var_list
                            ELSE hessian_vars
         /\ pc' = IF e # NoExc THEN "raised" ELSE "done"
    /\ calls' = calls + 1
    /\ call' = "finalize"
    /\ UNCHANGED <<env, self, written, gen, args, t, built, printed, emitted>>

\* build_loss() called directly on the instance
CallBuildLoss ==
    /\ pc = "idle"
    /\ calls < MaxCalls
    /\ \E fr \in {build_loss([Frame(self, written) EXCEPT !.n_build_loss = 1],
                             gen)} :
         /\ self' = fr.self
         /\ written' = fr.written
         /\ exc' = fr.exc
         /\ built' = fr.built
         /\ count' = [count EXCEPT !.build_loss = fr.n_build_loss]
         /\ pc' = IF fr.exc # NoExc THEN "raised" ELSE "done"
    /\ calls' = calls + 1
    /\ call' = "build_loss"
    /\ UNCHANGED <<env, gen, args, t, printed, emitted, hessian_vars>>

\* One of the MFVI loss builders called directly on the instance
CallBuilder ==
    /\ pc = "idle"
    /\ calls < MaxCalls
    /\ cls = "MFVI"
    /\ \E b \in MFVIBuilders :
         \E fr \in {MFVI_builder(b, Frame(self, written), gen)} :
             /\ self' = fr.self
             /\ written' = fr.written
             /\ exc' = fr.exc
             /\ built' = fr.built
             /\ pc' = IF fr.exc # NoExc THEN "raised" ELSE "done"
    /\ calls' = calls + 1
    /\ call' = "builder"
    /\ UNCHANGED <<env, gen, args, t, count, printed, emitted, hessian_vars>>

\* The call has returned or raised: control is back with the caller, and the
\* locals and the record of the finished call are gone.  The attributes of
\* the instance stay.
Return ==
    /\ pc \in {"done", "raised"}
    /\ pc' = "idle"
    /\ call' = "none"
    /\ args' = NoArgs
    /\ t' = 0
    /\ exc' = NoExc
    /\ count' = ZeroCount
    /\ built' = <<>>
    /\ printed' = <<>>
    /\ emitted' = {}
    /\ hessian_vars' = {}
    /\ UNCHANGED <<env, self, written, gen, calls>>

Next ==
    \/ CallRun
    \/ CallInitialize
    \/ CallUpdate
    \/ LoopUpdate
    \/ PrintProgress
    \/ CallPrintProgress
    \/ Finalize
    \/ CallFinalize
    \/ CallBuildLoss
    \/ CallBuilder
    \/ Return

Spec == Init /\ [][Next]_vars

\* ------------------------------------------------------------- properties
\* The call in progress (or just ended) is run() and its initialize returned.
RunInitialized == call = "run" /\ exc.at \notin {"initialize", "build_loss"}

\* A collaborator failed: the engine's execution, or the missing prettytensor.
CollaboratorFailed == exc.type \in {"EngineError", "NameError"}

\* 0, 1, ..., n - 1
UpTo(n) == [i \in 1..n |-> i - 1]

\* C1: for every n_iter >= 0 and every n_print, when no collaborator call
\* fails, run performs initialize once, then exactly n_iter + 1 update()
\* calls, then exactly one finalize(), which happens only after the last
\* update() has returned.
C1_RunProtocol ==
    (RunInitialized /\ ~CollaboratorFailed) =>
        /\ count.initialize = 1
        /\ count.finalize = 1 => count.update_ok = self.n_iter + 1
        /\ pc \in {"done", "raised"} =>
              /\ pc = "done"
              /\ count.update = self.n_iter + 1
              /\ count.finalize = 1

\* C2: during run, print_progress is invoked once after each update, with
\* t = 0, 1, ... counting the updates completed before that update, through
\* t = n_iter when the run completes; it prints on exactly the iterations t
\* with t mod n_print = 0, and never when n_print is None.
C2_PrintProgress ==
    call = "run" =>
        /\ printed = UpTo(count.print_progress)
        /\ count.print_progress =
              IF pc = "print_progress" THEN count.update_ok - 1
              ELSE count.update_ok
        /\ pc = "print_progress" => t = count.update_ok - 1
        /\ emitted = {i \in 0..(count.print_progress - 1) :
                         /\ self.n_print # None
                         /\ self.n_print[1] # 0
                         /\ i % self.n_print[1] = 0}
        /\ self.n_print = None => emitted = {}
        /\ pc = "done" => count.print_progress = self.n_iter + 1

C2_Witness ==
    /\ call = "run"
    /\ pc = "done"
    /\ self.n_iter = 1
    /\ self.n_print = Some(2)
    /\ printed = <<0, 1>>
    /\ emitted = {0}

\* C3: print_progress never changes n_iter, loss, zs or the train step and
\* never stops the loop, whatever print interval initialize accepted (None,
\* or any integer, 0 included).
C3_PrintTransparent ==
    [][pc = "print_progress" =>
          /\ self'.n_iter = self.n_iter
          /\ self'.loss = self.loss
          /\ self'.zs = self.zs
          /\ self'.train = self.train
          /\ pc' # "raised"]_vars

\* C4: an initialize given both a custom optimizer and a variable scope fails
\* with NotImplementedError, run performs no update() and no finalize(), and
\* the failed call has overwritten none of n_iter, n_data, n_print, loss, zs
\* and train.
C4_NoPartialState ==
    exc = Raise("NotImplementedError", "initialize") =>
        /\ args.optimizer # "None" /\ args.scope # "None"
        /\ count.update = 0
        /\ count.finalize = 0
        /\ \A a \in {"n_iter", "n_data", "n_print", "loss", "zs", "train"} :
              written[a] # gen

\* C5: in MFVI.initialize an explicit estimator flag overrides the default:
\* self.score equals the flag whenever the flag is not None.
C5_ExplicitFlag ==
    (cls = "MFVI" /\ call \in {"run", "initialize"} /\ args.score # "None") =>
        self.score = (args.score = "True")

\* C6: with the flag left None, MFVI.initialize selects the reparameterization
\* estimator iff variational.is_reparam, and the loss built by the same
\* initialize call is the one of the estimator just selected.
C6_DefaultEstimator ==
    (cls = "MFVI" /\ call \in {"run", "initialize"} /\ args.score = "None") =>
        /\ written["score"] = gen
        /\ self.score = ~variational.is_reparam
        /\ Len(built) = 1
        /\ built[1] \in (IF variational.is_reparam
                         THEN {"reparam_loss", "reparam_loss_kl"}
                         ELSE {"score_loss", "score_loss_kl"})
        /\ written["loss"] = gen
        /\ self.loss = built[1]

C6_Witness ==
    /\ cls = "MFVI"
    /\ call = "initialize"
    /\ gen = 2
    /\ args.score = "None"
    /\ variational.is_reparam
    /\ ~self.score
    /\ self.loss = "reparam_loss"
    /\ written["loss"] = 2

\* The entry of the dispatch table of MFVI.build_loss
DispatchTable(score, analytic) ==
    IF score
    THEN IF analytic THEN "score_loss_kl" ELSE "score_loss"
    ELSE IF analytic THEN "reparam_loss_kl" ELSE "reparam_loss"

EntropyBuilders == {"score_loss_entropy", "reparam_loss_entropy"}

\* C7: MFVI.build_loss invokes exactly the builder the table gives for
\* (self.score, is_normal and the model has log_lik), whether initialize calls
\* it or the caller does; no initialize, run, update or build_loss call invokes
\* an analytic-entropy builder, whatever was called on the instance before,
\* and the train step never minimizes an analytic-entropy loss.
C7_Dispatch ==
    /\ call \in {"run", "initialize", "update", "build_loss"} =>
          \A i \in 1..Len(built) : built[i] \notin EntropyBuilders
    /\ self.train.minimizes \notin EntropyBuilders
    /\ (cls = "MFVI" /\ call \in {"run", "initialize"}) =>
          built = <<DispatchTable(self.score,
                                  variational.is_normal /\ model.log_lik)>>
    /\ (cls = "MFVI" /\ call = "build_loss") =>
          IF exc = NoExc
          THEN built = <<DispatchTable(self.score,
                                       variational.is_normal /\ model.log_lik)>>
          ELSE built = <<>>

C7_Witness ==
    /\ cls = "MFVI"
    /\ variational.is_entropy
    /\ ~variational.is_normal
    /\ call = "run"
    /\ pc = "done"
    /\ built = <<"score_loss">>

\* C8: run on the base class fails with NotImplementedError raised from
\* build_loss during initialize, before a train step is configured, with no
\* update(), no print_progress() and no finalize() call.
C8_BaseClassFails ==
    (cls = "VariationalInference" /\ call = "run") =>
        /\ pc = "raised"
        /\ exc = Raise("NotImplementedError", "build_loss")
        /\ count.build_loss = 1
        /\ written["train"] = 0
        /\ count.update = 0
        /\ count.print_progress = 0
        /\ count.finalize = 0

C8_Witness ==
    /\ cls = "VariationalInference"
    /\ call = "run"
    /\ pc = "raised"
    /\ written["n_iter"] = gen

\* C9: Laplace computes the Hessian only inside finalize(), never during
\* initialize, build_loss, update or print_progress, at most once per call
\* and over exactly the trainable variables whose name starts with
\* "variational"; in a run it is computed after all n_iter + 1 updates, with
\* no update after it; and every run whose initialize succeeded and in which
\* no collaborator call failed computes it exactly once.
C9_HessianOnce ==
    /\ count.hessian <= 1
    /\ count.hessian = 1 =>
          /\ cls = "Laplace"
          /\ call \in {"run", "finalize"}
          /\ pc = "done"
          /\ count.finalize = 1
          /\ hessian_vars = {v \in TrainableVariables : v.name[1] = "variational"}
    /\ (count.hessian = 1 /\ call = "run") =>
          /\ count.update = self.n_iter + 1
          /\ count.update_ok = self.n_iter + 1
    /\ count.hessian = 0 => hessian_vars = {}
    /\ (/\ cls = "Laplace"
        /\ RunInitialized
        /\ ~CollaboratorFailed
        /\ pc \in {"done", "raised"}) => count.hessian = 1

\* C10: when the k-th update() of a run raises, run ends there: k + 1 update
\* attempts in all, print_progress invoked for iterations 0..k-1 only, and no
\* finalize().
C10_NoRetry ==
    (call = "run" /\ exc = Raise("EngineError", "update")) =>
        /\ pc = "raised"
        /\ t <= self.n_iter
        /\ count.update = t + 1
        /\ count.update_ok = t
        /\ printed = UpTo(t)
        /\ count.finalize = 0

C10_Witness ==
    /\ call = "run"
    /\ exc = Raise("EngineError", "update")
    /\ t = 1
    /\ count.update = 2
    /\ printed = <<0>>

Subclasses == {"MFVI", "KLpq", "MAP", "Laplace"}

\* C11: in every run() of a subclass build_loss is invoked exactly once,
\* inside initialize and before the first update(); no update(),
\* print_progress() or finalize() invokes build_loss or reassigns self.loss,
\* self.zs or self.train; and an update begins only when every earlier update
\* of the run has returned.
C11_LossBuiltOnce ==
    [][/\ (call' = "run" /\ cls' \in Subclasses) =>
              /\ count'.build_loss = 1
              /\ Len(built') = 1
              /\ written'["loss"] = gen'
       /\ pc' = "update" =>
              /\ count'.update = t'
              /\ count'.update_ok = t'
       /\ (\/ pc \in {"update", "print_progress", "finalize"}
           \/ call' \in {"update", "print_progress", "finalize"}) =>
              /\ self'.loss = self.loss
              /\ self'.zs = self.zs
              /\ self'.train = self.train
              /\ written' = written
              /\ built' = built
              /\ count'.build_loss = count.build_loss]_vars

C11_Witness ==
    /\ cls = "KLpq"
    /\ call = "run"
    /\ pc = "done"
    /\ gen = 2
    /\ count.build_loss = 1
    /\ built = <<"klpq_loss">>
    /\ self.n_iter = 1
    /\ count.update_ok = 2
    /\ written["loss"] = 2
    /\ written["train"] = 2

====
